---- MODULE Spec2Model ----
(***************************************************************************)
(* Model of the RAG chat backend: the FastAPI session handlers of          *)
(* backend/main.py and the retrieval-and-answer dispatch layer of          *)
(* backend/inference.py.                                                   *)
(*                                                                         *)
(* Python values are encoded as sequences of strings so that every field   *)
(* can be compared with every other one:                                   *)
(*   - a str is the sequence of its characters, "hi" = <<"h", "i">>;       *)
(*   - None is <<"None">>, a sequence that is no str because its element   *)
(*     is not a single character;                                          *)
(*   - an opaque object (a retriever, an index, a client, an embedding     *)
(*     model) is <<"object", name>>.                                       *)
(***************************************************************************)
EXTENDS Integers, Sequences, FiniteSets, TLC

VARIABLES
    session_state,            \* main.py: the global session dict
    http,                     \* the response of the last request handled
    embedding_constructions,  \* how many times inference() ran OpenAIEmbeddings()
    call                      \* the last call of inference() or of an adapter

vars == <<session_state, http, embedding_constructions, call>>

(***************************************************************************)
(* Bounds of the model.                                                    *)
(***************************************************************************)
MaxMessages == 4
MaxConstructions == 3
MaxTurns == 2

(***************************************************************************)
(* Python values.                                                          *)
(***************************************************************************)
None == <<"None">>
Object(name) == <<"object", name>>

\* bool(x) of an optional str: None and "" are falsy.
Truthy(x) == x # None /\ x # <<>>

LowerCase == <<"a", "b", "c", "d", "e", "f", "g", "h", "i", "j", "k", "l", "m",
               "n", "o", "p", "q", "r", "s", "t", "u", "v", "w", "x", "y", "z">>
UpperCase == <<"A", "B", "C", "D", "E", "F", "G", "H", "I", "J", "K", "L", "M",
               "N", "O", "P", "Q", "R", "S", "T", "U", "V", "W", "X", "Y", "Z">>

ToUpper(c) ==
    IF \E i \in 1..Len(LowerCase) : LowerCase[i] = c
    THEN UpperCase[CHOOSE i \in 1..Len(LowerCase) : LowerCase[i] = c]
    ELSE c

ToLower(c) ==
    IF \E i \in 1..Len(UpperCase) : UpperCase[i] = c
    THEN LowerCase[CHOOSE i \in 1..Len(UpperCase) : UpperCase[i] = c]
    ELSE c

\* str.upper(): every character upper-cased.
upper(s) == [i \in 1..Len(s) |-> ToUpper(s[i])]

\* str.capitalize(): first character upper-cased, the rest lower-cased.
capitalize(s) ==
    [i \in 1..Len(s) |-> IF i = 1 THEN ToUpper(s[i]) ELSE ToLower(s[i])]

\* The text an f-string interpolates for a value: str(None) is "None".
format(x) == IF x = None THEN <<"N", "o", "n", "e">> ELSE x

\* sep.join(parts)
RECURSIVE join(_, _)
join(sep, parts) ==
    IF parts = <<>> THEN <<>>
    ELSE IF Len(parts) = 1 THEN parts[1]
    ELSE parts[1] \o sep \o join(sep, Tail(parts))

(***************************************************************************)
(* Literals of the source.                                                 *)
(***************************************************************************)
Chroma == <<"C", "h", "r", "o", "m", "a">>
FAISS == <<"F", "A", "I", "S", "S">>
Qdrant == <<"Q", "d", "r", "a", "n", "t">>
Pinecone == <<"P", "i", "n", "e", "c", "o", "n", "e">>
Weaviate == <<"W", "e", "a", "v", "i", "a", "t", "e">>

user == <<"u", "s", "e", "r">>
assistant == <<"a", "s", "s", "i", "s", "t", "a", "n", "t">>

ChatHistoryHeader ==
    <<"C", "h", "a", "t", " ", "H", "i", "s", "t", "o", "r", "y", ":", "\n">>
NewQuestionHeader ==
    <<"\n", "\n", "N", "e", "w", " ", "Q", "u", "e", "s", "t", "i", "o", "n", ":", "\n">>
NotInitialized ==
    <<"E", "m", "b", "e", "d", "d", "i", "n", "g", " ", "m", "o", "d", "e", "l", " ",
      "i", "s", " ", "n", "o", "t", " ", "i", "n", "i", "t", "i", "a", "l", "i", "z",
      "e", "d", ".">>

\* str(e) of the AttributeError / TypeError Python raises when a None handle is used.
NoneTypeMessage == <<"N", "o", "n", "e", "T", "y", "p", "e">>

(***************************************************************************)
(* inference.py: the adapters.  An adapter's result records how the call   *)
(* ended (outcome "return" with its value, or "raise" with the exception   *)
(* class in error and str(e) in value) and the external calls it made, in  *)
(* order (events).  An event names the call (op), the text it was given    *)
(* (for a similarity query: the text whose embedding is the query vector;  *)
(* for the LLM call: the history-bearing text interpolated in the prompt)  *)
(* and the k of a top-k query (0 where there is none).                     *)
(*                                                                         *)
(* env is the behaviour of the outside world during one call: whether the  *)
(* embedding service, the retrieval backend, the docstore lookup and the   *)
(* hosted LLM answer or raise, the LLM's answer and the text of a raised   *)
(* error.                                                                  *)
(***************************************************************************)
Event(op, text, k) == [op |-> op, text |-> text, k |-> k]

Return(value, events) ==
    [outcome |-> "return", error |-> "", value |-> value, events |-> events]

Raise(error, message, events) ==
    [outcome |-> "raise", error |-> error, value |-> message, events |-> events]

\* The same f-string with the role upper-cased throughout (the mutant of turn_line).
turn_line_upper(msg) == upper(msg.role) \o <<":", " ">> \o format(msg.content)

\* f"{msg['role'].capitalize()}: {msg['content']}"
turn_line(msg) == capitalize(msg.role) \o <<":", " ">> \o format(msg.content)

\* f"Chat History:\n{history_context}\n\nNew Question:\n{question}"
with_history(history_context, question) ==
    ChatHistoryHeader \o history_context \o NewQuestionHeader \o question

inference_chroma(chat_model, question, retriever, chat_history, env) ==
    LET history_context ==
            join(<<"\n">>, [i \in 1..Len(chat_history) |-> turn_line(chat_history[i])])
        question_with_history == with_history(history_context, question)
        e1 == <<Event("retriever.invoke", question_with_history, 0)>>
        e2 == e1 \o <<Event("chat_model.invoke", question_with_history, 0)>>
    IN  IF retriever = None THEN Raise("TypeError", NoneTypeMessage, <<>>)
        ELSE IF ~env.search_ok THEN Raise("RetrievalFailure", env.message, e1)
        ELSE IF ~env.llm_ok THEN Raise("GenerationFailure", env.message, e2)
        ELSE Return(env.answer, e2)

inference_faiss(chat_model, question, embedding_model_global, index, docstore, chat_history, env) ==
    IF embedding_model_global = None THEN Raise("ValueError", NotInitialized, <<>>)
    ELSE
    LET history_context ==
            join(<<"\n">>, [i \in 1..Len(chat_history) |-> turn_line(chat_history[i])])
        e1 == <<Event("embed_query", question, 0)>>
        e2 == e1 \o <<Event("index.search", question, 1)>>
        e3 == e2 \o <<Event("docstore.search", question, 0)>>
        e4 == e3 \o <<Event("chat_model.invoke", history_context, 0)>>
    IN  IF ~env.embed_ok THEN Raise("EmbeddingFailure", env.message, e1)
        ELSE IF index = None THEN Raise("AttributeError", NoneTypeMessage, e1)
        ELSE IF ~env.search_ok THEN Raise("RetrievalFailure", env.message, e2)
        ELSE IF docstore = None THEN Raise("AttributeError", NoneTypeMessage, e2)
        ELSE IF ~env.doc_ok THEN Raise("RetrievalFailure", env.message, e3)
        ELSE IF ~env.llm_ok THEN Raise("GenerationFailure", env.message, e4)
        ELSE Return(env.answer, e4)

\* inference_qdrant embedding the question alone (the mutant of inference_qdrant).
inference_qdrant_question_only(chat_model, question, embedding_model_global, client, chat_history, env) ==
    IF embedding_model_global = None THEN Raise("ValueError", NotInitialized, <<>>)
    ELSE
    LET history_context ==
            join(<<"\n">>, [i \in 1..Len(chat_history) |-> turn_line(chat_history[i])])
        question_with_history == with_history(history_context, question)
        e1 == <<Event("embed_query", question, 0)>>
        e2 == e1 \o <<Event("client.search", question, 2)>>
        e3 == e2 \o <<Event("chat_model.predict", question_with_history, 0)>>
    IN  IF ~env.embed_ok THEN Raise("EmbeddingFailure", env.message, e1)
        ELSE IF client = None THEN Raise("AttributeError", NoneTypeMessage, e1)
        ELSE IF ~env.search_ok THEN Raise("RetrievalFailure", env.message, e2)
        ELSE IF ~env.llm_ok THEN Raise("GenerationFailure", env.message, e3)
        ELSE Return(env.answer, e3)

inference_qdrant(chat_model, question, embedding_model_global, client, chat_history, env) ==
    IF embedding_model_global = None THEN Raise("ValueError", NotInitialized, <<>>)
    ELSE
    LET history_context ==
            join(<<"\n">>, [i \in 1..Len(chat_history) |-> turn_line(chat_history[i])])
        question_with_history == with_history(history_context, question)
        e1 == <<Event("embed_query", question_with_history, 0)>>
        e2 == e1 \o <<Event("client.search", question_with_history, 2)>>
        e3 == e2 \o <<Event("chat_model.predict", question_with_history, 0)>>
    IN  IF ~env.embed_ok THEN Raise("EmbeddingFailure", env.message, e1)
        ELSE IF client = None THEN Raise("AttributeError", NoneTypeMessage, e1)
        ELSE IF ~env.search_ok THEN Raise("RetrievalFailure", env.message, e2)
        ELSE IF ~env.llm_ok THEN Raise("GenerationFailure", env.message, e3)
        ELSE Return(env.answer, e3)

\* inference_pinecone with the None check moved after the embedding call (the
\* mutant of inference_pinecone).
inference_pinecone_late_check(chat_model, question, embedding_model_global, pinecone_index, chat_history, env) ==
    LET formatted_history ==
            join(<<"\n">>, [i \in 1..Len(chat_history) |-> turn_line(chat_history[i])])
        e1 == <<Event("embed_query", question, 0)>>
        e2 == e1 \o <<Event("pinecone_index.query", question, 2)>>
        e3 == e2 \o <<Event("chat_model.predict", formatted_history, 0)>>
    IN  IF embedding_model_global = None THEN Raise("ValueError", NotInitialized, e1)
        ELSE IF ~env.embed_ok THEN Raise("EmbeddingFailure", env.message, e1)
        ELSE IF pinecone_index = None THEN Raise("AttributeError", NoneTypeMessage, e1)
        ELSE IF ~env.search_ok THEN Raise("RetrievalFailure", env.message, e2)
        ELSE IF ~env.llm_ok THEN Raise("GenerationFailure", env.message, e3)
        ELSE Return(env.answer, e3)

inference_pinecone(chat_model, question, embedding_model_global, pinecone_index, chat_history, env) ==
    IF embedding_model_global = None THEN Raise("ValueError", NotInitialized, <<>>)
    ELSE
    LET formatted_history ==
            join(<<"\n">>, [i \in 1..Len(chat_history) |-> turn_line(chat_history[i])])
        e1 == <<Event("embed_query", question, 0)>>
        e2 == e1 \o <<Event("pinecone_index.query", question, 2)>>
        e3 == e2 \o <<Event("chat_model.predict", formatted_history, 0)>>
    IN  IF ~env.embed_ok THEN Raise("EmbeddingFailure", env.message, e1)
        ELSE IF pinecone_index = None THEN Raise("AttributeError", NoneTypeMessage, e1)
        ELSE IF ~env.search_ok THEN Raise("RetrievalFailure", env.message, e2)
        ELSE IF ~env.llm_ok THEN Raise("GenerationFailure", env.message, e3)
        ELSE Return(env.answer, e3)

inference_weaviate(chat_model, question, vs, chat_history, env) ==
    LET history_context ==
            join(<<"\n">>, [i \in 1..Len(chat_history) |-> turn_line(chat_history[i])])
        question_with_history == with_history(history_context, question)
        e1 == <<Event("retriever.invoke", question_with_history, 0)>>
        e2 == e1 \o <<Event("chat_model.invoke", question_with_history, 0)>>
    IN  IF vs = None THEN Raise("AttributeError", NoneTypeMessage, <<>>)
        ELSE IF ~env.search_ok THEN Raise("RetrievalFailure", env.message, e1)
        ELSE IF ~env.llm_ok THEN Raise("GenerationFailure", env.message, e2)
        ELSE Return(env.answer, e2)

(***************************************************************************)
(* inference.py: the dispatcher.  Its result is the adapter's, with the    *)
(* construction of the embedding model and the adapter call put in front   *)
(* of the adapter's events.  Falling off the end of the if-chain returns   *)
(* None after printing "Invalid Choice".                                   *)
(***************************************************************************)
Enter(adapter, construction, r) ==
    [r EXCEPT !.events = construction \o <<Event(adapter, <<>>, 0)>> \o @]

\* A dispatcher that sends Qdrant to the Weaviate adapter: both take vs (the
\* mutant of inference).
inference_crossed(vectordb_name, chat_model, question, retriever, embedding_model_global, index, docstore, pinecone_index, vs, chat_history, env) ==
    LET construction ==
            IF embedding_model_global = None
            THEN <<Event("OpenAIEmbeddings", <<>>, 0)>> ELSE <<>>
        embedding_model ==
            IF embedding_model_global = None
            THEN Object("OpenAIEmbeddings") ELSE embedding_model_global
    IN  IF vectordb_name = Chroma
        THEN Enter("inference_chroma", construction,
                 inference_chroma(chat_model, question, retriever, chat_history, env))
        ELSE IF vectordb_name = FAISS
        THEN Enter("inference_faiss", construction,
                 inference_faiss(chat_model, question, embedding_model, index, docstore, chat_history, env))
        ELSE IF vectordb_name = Qdrant
        THEN Enter("inference_weaviate", construction,
                 inference_weaviate(chat_model, question, vs, chat_history, env))
        ELSE IF vectordb_name = Pinecone
        THEN Enter("inference_pinecone", construction,
                 inference_pinecone(chat_model, question, embedding_model, pinecone_index, chat_history, env))
        ELSE IF vectordb_name = Weaviate
        THEN Enter("inference_weaviate", construction,
                 inference_weaviate(chat_model, question, vs, chat_history, env))
        ELSE Return(None, construction)

inference(vectordb_name, chat_model, question, retriever, embedding_model_global, index, docstore, pinecone_index, vs, chat_history, env) ==
    LET construction ==
            IF embedding_model_global = None
            THEN <<Event("OpenAIEmbeddings", <<>>, 0)>> ELSE <<>>
        embedding_model ==
            IF embedding_model_global = None
            THEN Object("OpenAIEmbeddings") ELSE embedding_model_global
    IN  IF vectordb_name = Chroma
        THEN Enter("inference_chroma", construction,
                 inference_chroma(chat_model, question, retriever, chat_history, env))
        ELSE IF vectordb_name = FAISS
        THEN Enter("inference_faiss", construction,
                 inference_faiss(chat_model, question, embedding_model, index, docstore, chat_history, env))
        ELSE IF vectordb_name = Qdrant
        THEN Enter("inference_qdrant", construction,
                 inference_qdrant(chat_model, question, embedding_model, vs, chat_history, env))
        ELSE IF vectordb_name = Pinecone
        THEN Enter("inference_pinecone", construction,
                 inference_pinecone(chat_model, question, embedding_model, pinecone_index, chat_history, env))
        ELSE IF vectordb_name = Weaviate
        THEN Enter("inference_weaviate", construction,
                 inference_weaviate(chat_model, question, vs, chat_history, env))
        ELSE Return(None, construction)

\* The number of events of r made by the call op.
Count(r, op) == Cardinality({i \in 1..Len(r.events) : r.events[i].op = op})

(***************************************************************************)
(* The inputs the requests and calls are drawn from.                       *)
(***************************************************************************)
\* A backend name outside the closed set.
Milvus == <<"M", "i", "l", "v", "u", "s">>

SupportedVectorDBs == {Chroma, FAISS, Qdrant, Pinecone, Weaviate}
VectorDBInputs == SupportedVectorDBs \cup {Milvus, <<>>}
ChatModelInputs == {<<"m">>, <<>>}
Prompts == {<<"h", "i">>, <<"a", "\n", "b">>}
Answers == {<<"h", "e", "l", "l", "o">>}
ErrorMessages == {<<"e", "r", "r">>}

Envs ==
    [embed_ok : BOOLEAN, search_ok : BOOLEAN, doc_ok : BOOLEAN, llm_ok : BOOLEAN,
     answer : Answers, message : ErrorMessages]

PreprocessOutcomes ==
    {"ok", "invalid_links_json", "invalid_url", "no_documents", "empty_filename",
     "scrape_failed", "preprocess_vectordbs_failed"}

Turns ==
    {[role |-> user, content |-> <<"h", "i">>]}
        \cup {[role |-> assistant, content |-> a] : a \in Answers \cup {None}}

Histories == UNION {[1..n -> Turns] : n \in 0..MaxTurns}

Handles(name) == {None, Object(name)}

(***************************************************************************)
(* main.py: the session record and the request handlers.                   *)
(***************************************************************************)
Response(endpoint, status, detail, payload) ==
    [endpoint |-> endpoint, status |-> status, detail |-> detail, payload |-> payload]

NoCall == [fn |-> "none"]

InitialSession ==
    [retriever |-> None, preprocessing_done |-> FALSE, index |-> None,
     docstore |-> None, embedding_model_global |-> None, pinecone_index |-> None,
     vs |-> None, selected_vectordb |-> None, selected_chat_model |-> None,
     messages |-> <<>>]

Init ==
    /\ session_state = InitialSession
    /\ http = Response("", 0, "", None)
    /\ embedding_constructions = 0
    /\ call = NoCall

\* POST /preprocess.  Every failure inside the outer try, the HTTPExceptions of
\* the validation included, is caught by the outer except and reported as 500.
preprocess(outcome) ==
    /\ IF outcome = "ok"
       THEN /\ session_state' = [session_state EXCEPT !.preprocessing_done = TRUE]
            /\ http' = Response("preprocess", 200, "Preprocessing completed successfully!", None)
       ELSE /\ session_state' = session_state
            /\ http' = Response("preprocess", 500, "Unexpected Error", None)
    /\ UNCHANGED <<embedding_constructions, call>>

\* POST /select_vectordb
select_vectordb(vectordb) ==
    /\ session_state' = [session_state EXCEPT !.selected_vectordb = vectordb]
    /\ http' = Response("select_vectordb", 200, "Selected Vector Database", vectordb)
    /\ UNCHANGED <<embedding_constructions, call>>

\* POST /select_chat_model
select_chat_model(chat_model) ==
    /\ session_state' = [session_state EXCEPT !.selected_chat_model = chat_model]
    /\ http' = Response("select_chat_model", 200, "Selected Chat Model", chat_model)
    /\ UNCHANGED <<embedding_constructions, call>>

\* The readiness checks of POST /chat.
Ready ==
    /\ session_state.preprocessing_done
    /\ Truthy(session_state.selected_vectordb)
    /\ Truthy(session_state.selected_chat_model)

\* POST /chat, lines 117-121: a failed readiness check raises HTTPException(400)
\* before anything is stored.
Reject(detail) ==
    /\ http' = Response("chat", 400, detail, None)
    /\ UNCHANGED <<session_state, embedding_constructions, call>>

\* POST /chat, lines 123-149: store the user turn, run inference on the session's
\* fields, then store the assistant turn and answer, or report the exception.
Answer(prompt) ==
    /\ Len(session_state.messages) + 2 <= MaxMessages
    /\ embedding_constructions < MaxConstructions
    /\ \E env \in Envs :
         LET stored == Append(session_state.messages, [role |-> user, content |-> prompt])
             args == [vectordb_name |-> session_state.selected_vectordb,
                      chat_model |-> session_state.selected_chat_model,
                      question |-> prompt,
                      retriever |-> session_state.retriever,
                      embedding_model_global |-> session_state.embedding_model_global,
                      index |-> session_state.index,
                      docstore |-> session_state.docstore,
                      pinecone_index |-> session_state.pinecone_index,
                      vs |-> session_state.vs,
                      chat_history |-> stored]
             response == inference(args.vectordb_name, args.chat_model, args.question,
                                   args.retriever, args.embedding_model_global, args.index,
                                   args.docstore, args.pinecone_index, args.vs,
                                   args.chat_history, env)
         IN  /\ call' = [fn |-> "inference", args |-> args, res |-> response]
             /\ embedding_constructions' =
                   embedding_constructions + Count(response, "OpenAIEmbeddings")
             /\ IF response.outcome = "return"
                THEN /\ session_state' = [session_state EXCEPT !.messages =
                           Append(stored, [role |-> assistant, content |-> response.value])]
                     /\ http' = Response("chat", 200, "", response.value)
                ELSE /\ session_state' = [session_state EXCEPT !.messages = stored]
                     /\ http' = Response("chat", 500, "Inference Error", response.value)

\* POST /chat without the check of the chat model (the mutant of chat_with_bot).
chat_with_bot_unchecked(prompt) ==
    IF ~session_state.preprocessing_done
    THEN Reject("Preprocessing must be completed before inferencing.")
    ELSE IF ~Truthy(session_state.selected_vectordb)
    THEN Reject("Please select both a vector database and a chat model before chatting.")
    ELSE Answer(prompt)

\* POST /chat
chat_with_bot(prompt) ==
    IF ~session_state.preprocessing_done
    THEN Reject("Preprocessing must be completed before inferencing.")
    ELSE IF ~Truthy(session_state.selected_vectordb) \/ ~Truthy(session_state.selected_chat_model)
    THEN Reject("Please select both a vector database and a chat model before chatting.")
    ELSE Answer(prompt)

\* POST /reset clearing the selections with the history (the mutant of reset_chat).
reset_chat_selections ==
    /\ session_state' = [session_state EXCEPT !.messages = <<>>,
                                              !.selected_vectordb = None,
                                              !.selected_chat_model = None]
    /\ http' = Response("reset", 200, "Chat history reset.", None)
    /\ UNCHANGED <<embedding_constructions, call>>

\* POST /reset
reset_chat ==
    /\ session_state' = [session_state EXCEPT !.messages = <<>>]
    /\ http' = Response("reset", 200, "Chat history reset.", None)
    /\ UNCHANGED <<embedding_constructions, call>>

Next ==
    \/ \E outcome \in PreprocessOutcomes : preprocess(outcome)
    \/ \E vectordb \in VectorDBInputs : select_vectordb(vectordb)
    \/ \E chat_model \in ChatModelInputs : select_chat_model(chat_model)
    \/ \E prompt \in Prompts : chat_with_bot(prompt)
    \/ reset_chat

Spec == Init /\ [][Next]_vars

(***************************************************************************)
(* inference.py called directly, on arguments drawn from the input sets:   *)
(* the dispatcher and each adapter as functions of their arguments.  An    *)
(* adapter takes no backend name: its direct call is made from the         *)
(* argument records that carry its own name, the other fields ranging over *)
(* all their values.                                                       *)
(***************************************************************************)
Args ==
    [vectordb_name : VectorDBInputs, chat_model : {<<"m">>}, question : Prompts,
     retriever : Handles("retriever"), embedding_model_global : Handles("embedding"),
     index : Handles("index"), docstore : Handles("docstore"),
     pinecone_index : Handles("pinecone_index"), vs : Handles("vs"),
     chat_history : Histories]

Called(fn, args, r) ==
    /\ call.fn = "none"
    /\ call.args = args
    /\ call' = [fn |-> fn, args |-> args, res |-> r]
    /\ UNCHANGED <<session_state, http, embedding_constructions>>

InitInference ==
    /\ session_state = InitialSession
    /\ http = Response("", 0, "", None)
    /\ embedding_constructions = 0
    /\ \E a \in Args : call = [fn |-> "none", args |-> a, res |-> Return(None, <<>>)]

CallInference ==
    \E env \in Envs : LET a == call.args IN
        Called("inference", a,
               inference(a.vectordb_name, a.chat_model, a.question, a.retriever,
                         a.embedding_model_global, a.index, a.docstore, a.pinecone_index,
                         a.vs, a.chat_history, env))

CallChroma ==
    /\ call.args.vectordb_name = Chroma
    /\ \E env \in Envs : LET a == call.args IN
        Called("inference_chroma", a,
               inference_chroma(a.chat_model, a.question, a.retriever, a.chat_history, env))

CallFaiss ==
    /\ call.args.vectordb_name = FAISS
    /\ \E env \in Envs : LET a == call.args IN
        Called("inference_faiss", a,
               inference_faiss(a.chat_model, a.question, a.embedding_model_global, a.index,
                               a.docstore, a.chat_history, env))

CallQdrant ==
    /\ call.args.vectordb_name = Qdrant
    /\ \E env \in Envs : LET a == call.args IN
        Called("inference_qdrant", a,
               inference_qdrant(a.chat_model, a.question, a.embedding_model_global, a.vs,
                                a.chat_history, env))

CallPinecone ==
    /\ call.args.vectordb_name = Pinecone
    /\ \E env \in Envs : LET a == call.args IN
        Called("inference_pinecone", a,
               inference_pinecone(a.chat_model, a.question, a.embedding_model_global,
                                  a.pinecone_index, a.chat_history, env))

CallWeaviate ==
    /\ call.args.vectordb_name = Weaviate
    /\ \E env \in Envs : LET a == call.args IN
        Called("inference_weaviate", a,
               inference_weaviate(a.chat_model, a.question, a.vs, a.chat_history, env))

NextInference ==
    \/ CallInference
    \/ CallChroma
    \/ CallFaiss
    \/ CallQdrant
    \/ CallPinecone
    \/ CallWeaviate

SpecInference == InitInference /\ [][NextInference]_vars

(***************************************************************************)
(* Properties.  In a behaviour of Spec a step that changes the state and   *)
(* ends with http.endpoint = "chat" (resp. "reset") is a step of           *)
(* chat_with_bot (resp. reset_chat): no other handler sets that endpoint.  *)
(***************************************************************************)

\* C1: a chat request invokes inference, and stores any turn, only if
\* preprocessing_done is set and both a vector database and a chat model are
\* selected; otherwise it is answered with a 400 error and the session record
\* (and everything else) is left as it was.  preprocessing_done is only ever set
\* by a preprocess request that succeeded.
C1_ChatOnlyWhenReady ==
    [][ /\ (http'.endpoint = "chat" /\ ~Ready) =>
              /\ http'.status = 400
              /\ session_state' = session_state
              /\ call' = call
              /\ embedding_constructions' = embedding_constructions
        /\ (call' # call \/ embedding_constructions' # embedding_constructions) =>
              (http'.endpoint = "chat" /\ Ready)
        /\ (http'.endpoint = "chat" /\ session_state' # session_state) => Ready
        /\ (session_state'.preprocessing_done /\ ~session_state.preprocessing_done) =>
              (http'.endpoint = "preprocess" /\ http'.status = 200)
      ]_vars

\* C1 witness: a chat request rejected for a missing selection, in a session
\* that was ready before and holds turns of an earlier chat.
C1_Witness ==
    /\ http.endpoint = "chat"
    /\ http.status = 400
    /\ session_state.preprocessing_done
    /\ ~Ready
    /\ Len(session_state.messages) > 0
    /\ call # NoCall

\* C2: with a backend name outside the closed set, inference ends in a failure
\* reported to the caller, and the chat request that made the call is not
\* answered as a success.
C2_UnsupportedBackendFails ==
    (call # NoCall /\ call.fn = "inference"
        /\ call.args.vectordb_name \notin SupportedVectorDBs) =>
            /\ call.res.outcome = "raise"
            /\ (http.endpoint = "chat" /\ http.status # 400) => http.status # 200

\* C3: a chat request that ends in a reported inference failure leaves the
\* session record as it was before the request.
C3_FailedChatKeepsSession ==
    [][ (http'.endpoint = "chat" /\ http'.status = 500) =>
            session_state' = session_state ]_vars

\* C4: a reset request empties the turn history and leaves every other field of
\* the session record unchanged, so a session that is ready to chat stays ready.
C4_ResetOnlyClearsHistory ==
    [][ http'.endpoint = "reset" =>
            /\ session_state'.messages = <<>>
            /\ session_state' = [session_state EXCEPT !.messages = <<>>]
            /\ (Ready => Ready')
      ]_vars

\* C4 witness: a reset has just emptied the history of a ready session that had
\* chatted.
C4_Witness ==
    /\ http.endpoint = "reset"
    /\ Ready
    /\ session_state.messages = <<>>
    /\ call # NoCall
    /\ embedding_constructions > 0

\* C5: over any sequence of chat requests of one session the embedding model is
\* constructed at most once.
C5_EmbeddingConstructedOnce == embedding_constructions <= 1

\* C10: when a chat request has passed its readiness checks and called
\* inference, the session's handle(s) of the selected vector database were set.
C10_HandlesSetWhenChatting ==
    (http.endpoint = "chat" /\ http.status # 400 /\ call # NoCall) =>
        LET a == call.args
        IN  /\ a.vectordb_name = Chroma => a.retriever # None
            /\ a.vectordb_name = FAISS => (a.index # None /\ a.docstore # None)
            /\ a.vectordb_name = Qdrant => a.vs # None
            /\ a.vectordb_name = Weaviate => a.vs # None
            /\ a.vectordb_name = Pinecone => a.pinecone_index # None

(***************************************************************************)
(* Properties of inference.py called directly (SpecInference).             *)
(***************************************************************************)
Made == call.fn # "none"

AdapterNames ==
    {"inference_chroma", "inference_faiss", "inference_qdrant", "inference_pinecone",
     "inference_weaviate"}

\* The adapter that carries the name of a backend of the closed set.
AdapterNamed(vectordb_name) ==
    IF vectordb_name = Chroma THEN "inference_chroma"
    ELSE IF vectordb_name = FAISS THEN "inference_faiss"
    ELSE IF vectordb_name = Qdrant THEN "inference_qdrant"
    ELSE IF vectordb_name = Pinecone THEN "inference_pinecone"
    ELSE "inference_weaviate"

\* What the adapter fn yields when called on the arguments a, the dispatcher
\* having supplied the embedding model emb, in the outside world env.
Direct(fn, a, emb, env) ==
    IF fn = "inference_chroma"
    THEN inference_chroma(a.chat_model, a.question, a.retriever, a.chat_history, env)
    ELSE IF fn = "inference_faiss"
    THEN inference_faiss(a.chat_model, a.question, emb, a.index, a.docstore, a.chat_history, env)
    ELSE IF fn = "inference_qdrant"
    THEN inference_qdrant(a.chat_model, a.question, emb, a.vs, a.chat_history, env)
    ELSE IF fn = "inference_pinecone"
    THEN inference_pinecone(a.chat_model, a.question, emb, a.pinecone_index, a.chat_history, env)
    ELSE inference_weaviate(a.chat_model, a.question, a.vs, a.chat_history, env)

\* The events of r from the first adapter call on, that call excluded.
AfterEntry(r) ==
    LET at == CHOOSE i \in 1..Len(r.events) : r.events[i].op \in AdapterNames
                /\ \A j \in 1..(i - 1) : r.events[j].op \notin AdapterNames
    IN  SubSeq(r.events, at + 1, Len(r.events))

\* C6: for a backend name of the closed set, one call of inference calls the
\* adapter of that name exactly once, calls no other adapter, and ends as that
\* adapter ends on the same arguments: same outcome, same value, same calls.
C6_DispatchToNamedAdapter ==
    (Made /\ call.fn = "inference" /\ call.args.vectordb_name \in SupportedVectorDBs) =>
        LET a == call.args
            r == call.res
            named == AdapterNamed(a.vectordb_name)
            emb == IF a.embedding_model_global = None
                   THEN Object("OpenAIEmbeddings") ELSE a.embedding_model_global
        IN  /\ Count(r, named) = 1
            /\ \A other \in AdapterNames \ {named} : Count(r, other) = 0
            /\ \E env \in Envs :
                 LET d == Direct(named, a, emb, env)
                 IN  /\ r.outcome = d.outcome
                     /\ r.error = d.error
                     /\ r.value = d.value
                     /\ AfterEntry(r) = d.events

\* C6 witness: inference called for Qdrant returned the LLM's answer.
C6_Witness ==
    /\ Made
    /\ call.fn = "inference"
    /\ call.args.vectordb_name = Qdrant
    /\ call.res.outcome = "return"
    /\ call.res.value \in Answers

\* C7: an adapter that needs embeddings, called with no embedding model, raises
\* "Embedding model is not initialized." before it makes any embedding,
\* retrieval or LLM call.
C7_FailFastWithoutEmbeddingModel ==
    (Made /\ call.fn \in {"inference_faiss", "inference_qdrant", "inference_pinecone"}
        /\ call.args.embedding_model_global = None) =>
            /\ call.res.outcome = "raise"
            /\ call.res.error = "ValueError"
            /\ call.res.value = NotInitialized
            /\ call.res.events = <<>>

\* C7 witness: the Pinecone adapter, given a live index but no embedding model,
\* has raised.
C7_Witness ==
    /\ Made
    /\ call.fn = "inference_pinecone"
    /\ call.args.embedding_model_global = None
    /\ call.args.pinecone_index # None
    /\ call.res.outcome = "raise"

(***************************************************************************)
(* The serialization of a turn sequence, stated position by position and   *)
(* without the operators of the model.                                     *)
(***************************************************************************)
RoleLabel(role) ==
    IF role = <<"u", "s", "e", "r">>
    THEN <<"U", "s", "e", "r">>
    ELSE <<"A", "s", "s", "i", "s", "t", "a", "n", "t">>

ExpectedLine(turn) ==
    RoleLabel(turn.role) \o <<":", " ">>
        \o (IF turn.content = None THEN <<"N", "o", "n", "e">> ELSE turn.content)

\* How many characters precede line i.
RECURSIVE LineStart(_, _)
LineStart(turns, i) ==
    IF i = 1 THEN 0
    ELSE LineStart(turns, i - 1) + Len(ExpectedLine(turns[i - 1])) + 1

IsSerialization(h, turns) ==
    /\ Len(h) = IF turns = <<>> THEN 0
                ELSE LineStart(turns, Len(turns)) + Len(ExpectedLine(turns[Len(turns)]))
    /\ \A i \in 1..Len(turns) :
          LET from == LineStart(turns, i)
              line == ExpectedLine(turns[i])
          IN  /\ SubSeq(h, from + 1, from + Len(line)) = line
              /\ i < Len(turns) => h[from + Len(line) + 1] = "\n"

\* t is "Chat History:\n" + the serialization of turns + "\n\nNew Question:\n" +
\* question.
CombinesQuestionAndHistory(t, question, turns) ==
    LET n == Len(ChatHistoryHeader)
        m == Len(NewQuestionHeader) + Len(question)
    IN  /\ Len(t) >= n + m
        /\ SubSeq(t, 1, n) = ChatHistoryHeader
        /\ IsSerialization(SubSeq(t, n + 1, Len(t) - m), turns)
        /\ SubSeq(t, Len(t) - m + 1, Len(t)) = NewQuestionHeader \o question

\* The events of the call op in r.
EventsOf(r, op) == SelectSeq(r.events, LAMBDA e : e.op = op)

\* The text embedded is the one the top-2 query is made with.
QueriesTop2With(r, search, t) ==
    /\ \A i \in 1..Len(EventsOf(r, "embed_query")) : EventsOf(r, "embed_query")[i].text = t
    /\ \A i \in 1..Len(EventsOf(r, search)) :
          /\ EventsOf(r, search)[i].text = t
          /\ EventsOf(r, search)[i].k = 2
    /\ Len(EventsOf(r, search)) <= Len(EventsOf(r, "embed_query"))

\* C8 as stated: the Qdrant and the Pinecone adapter both embed the text that
\* combines the question with the serialized history, and query the top 2 with
\* that embedding.
C8_BothEmbedQuestionAndHistory ==
    (Made /\ call.fn \in {"inference_qdrant", "inference_pinecone"}) =>
        LET a == call.args
            r == call.res
            search == IF call.fn = "inference_qdrant"
                      THEN "client.search" ELSE "pinecone_index.query"
        IN  /\ \A i \in 1..Len(EventsOf(r, "embed_query")) :
                  CombinesQuestionAndHistory(EventsOf(r, "embed_query")[i].text,
                                             a.question, a.chat_history)
            /\ Len(EventsOf(r, "embed_query")) > 0 =>
                  QueriesTop2With(r, search, EventsOf(r, "embed_query")[1].text)

\* C8 amended: the Qdrant adapter embeds the text that combines the question
\* with the serialized history, the Pinecone adapter embeds the question alone;
\* each queries the top 2 with the embedding it computed.
C8_QdrantEmbedsHistoryPineconeQuestion ==
    (Made /\ call.fn \in {"inference_qdrant", "inference_pinecone"}) =>
        LET a == call.args
            r == call.res
            search == IF call.fn = "inference_qdrant"
                      THEN "client.search" ELSE "pinecone_index.query"
        IN  /\ \A i \in 1..Len(EventsOf(r, "embed_query")) :
                  IF call.fn = "inference_qdrant"
                  THEN CombinesQuestionAndHistory(EventsOf(r, "embed_query")[i].text,
                                                  a.question, a.chat_history)
                  ELSE EventsOf(r, "embed_query")[i].text = a.question
            /\ Len(EventsOf(r, "embed_query")) > 0 =>
                  QueriesTop2With(r, search, EventsOf(r, "embed_query")[1].text)
            /\ r.outcome = "return" =>
                  (Len(EventsOf(r, "embed_query")) = 1 /\ Len(EventsOf(r, search)) = 1)

\* C8 witness: the Pinecone adapter has answered a question asked with a
\* non-empty history.
C8_Witness ==
    /\ Made
    /\ call.fn = "inference_pinecone"
    /\ call.res.outcome = "return"
    /\ Len(call.args.chat_history) > 0

\* The text an adapter hands to the LLM: the last event of a call that reached it.
PromptText(r) == r.events[Len(r.events)].text

ReachedLLM(r) ==
    /\ Len(r.events) > 0
    /\ r.events[Len(r.events)].op \in {"chat_model.invoke", "chat_model.predict"}

\* C9: in every adapter the history put in the prompt is one line
\* "<Role>: <content>" per turn, the role with its first letter capitalized, the
\* lines in turn order and joined by single newlines, nothing dropped, repeated
\* or reordered; [user "hi", assistant "hello"] gives "User: hi\nAssistant: hello".
C9_HistorySerialization ==
    (Made /\ call.fn \in AdapterNames /\ ReachedLLM(call.res)) =>
        LET a == call.args
            t == PromptText(call.res)
            example == <<[role |-> <<"u", "s", "e", "r">>, content |-> <<"h", "i">>],
                         [role |-> <<"a", "s", "s", "i", "s", "t", "a", "n", "t">>,
                          content |-> <<"h", "e", "l", "l", "o">>]>>
            rendered == <<"U", "s", "e", "r", ":", " ", "h", "i", "\n", "A", "s", "s", "i",
                          "s", "t", "a", "n", "t", ":", " ", "h", "e", "l", "l", "o">>
        IN  /\ IF call.fn \in {"inference_faiss", "inference_pinecone"}
               THEN IsSerialization(t, a.chat_history)
               ELSE CombinesQuestionAndHistory(t, a.question, a.chat_history)
            /\ (a.chat_history = example /\ call.fn \in {"inference_faiss", "inference_pinecone"})
                  => t = rendered

\* C9 witness: the FAISS adapter has answered with the two-turn history
\* [user "hi", assistant "hello"].
C9_Witness ==
    /\ Made
    /\ call.fn = "inference_faiss"
    /\ call.res.outcome = "return"
    /\ Len(call.args.chat_history) = 2
    /\ call.args.chat_history[1] = [role |-> user, content |-> <<"h", "i">>]
    /\ call.args.chat_history[2] = [role |-> assistant, content |-> <<"h", "e", "l", "l", "o">>]

====
